---- MODULE Spec2Model ----
(***************************************************************************)
(* Conflict-based dependency scheduler of runtime/src/parallel_determinism *)
(*   types.rs      Task, Task::conflicts_with                              *)
(*   dep_graph.rs  DependencyGraph::from_tasks, ::execution_levels         *)
(* and the word workload of runtime/src/tasks.rs                           *)
(*   tasks.rs      select_random_word, count_word_occurrences              *)
(* A Task is modelled by the fields the scheduler reads: id, reads and     *)
(* writes (name is used for printing only, work is never called by the     *)
(* scheduler).  A Vec is a sequence, a HashSet a set, a HashMap a function *)
(* whose DOMAIN is its key set.  TaskIds are usize values, positions of    *)
(* the input are 0-based as in the source: position p is tasks[p + 1].     *)
(***************************************************************************)
EXTENDS Naturals, Sequences, FiniteSets

\* Largest number of tasks of an input sequence.
MaxTasks == 3
\* Largest length of a reads / writes Vec of the two tasks handed to
\* conflicts_with in SpecConflict.
MaxLen == 2
\* Largest number of words of a corpus.
MaxWords == 3

\* Resource identifiers (opaque strings compared by equality).
Resources == {"x", "y"}

\* Values the caller-supplied id field of the task at position p of an input
\* of n tasks is drawn from: its position, the mirrored position (a
\* permutation of the positions when every task takes it, a duplicate or a
\* gap otherwise) and n, which is no position of the input.
IdChoices(p, n) == {p, n - 1 - p, n}

\* All sequences over S of length at most n.
SeqsUpTo(S, n) == UNION {[1 .. k -> S] : k \in 0 .. n}

\* reads / writes of the tasks of a scheduling run: at most one resource.
AccessLists == SeqsUpTo(Resources, 1)

\* Tasks handed to conflicts_with directly: longer Vecs, duplicates included
\* (conflicts_with does not read the id).
WideTask == [id : {0}, reads : SeqsUpTo(Resources, MaxLen),
             writes : SeqsUpTo(Resources, MaxLen)]

\* Vec::contains
Contains(vec, x) == \E i \in 1 .. Len(vec) : vec[i] = x

\* ReadLoop with `return false` inside the loop body: only the first read is
\* looked at.
ReadLoopFirstOnly(self, other, i) ==
    IF i > Len(self.reads) THEN FALSE
    ELSE Contains(other.writes, self.reads[i])

RECURSIVE ReadLoopVsReads(_, _, _)
\* ReadLoop that looks the read up in other.reads instead of other.writes.
ReadLoopVsReads(self, other, i) ==
    IF i > Len(self.reads) THEN FALSE
    ELSE IF Contains(other.reads, self.reads[i]) THEN TRUE
    ELSE ReadLoopVsReads(self, other, i + 1)

RECURSIVE ReadLoopNegated(_, _, _)
\* ReadLoop with the test negated: !other.writes.contains(read).
ReadLoopNegated(self, other, i) ==
    IF i > Len(self.reads) THEN FALSE
    ELSE IF ~Contains(other.writes, self.reads[i]) THEN TRUE
    ELSE ReadLoopNegated(self, other, i + 1)

RECURSIVE ReadLoop(_, _, _)
\* for read in &self.reads { if other.writes.contains(read) { return true } }
\* from index i on; FALSE when the loop falls through.
ReadLoop(self, other, i) ==
    IF i > Len(self.reads) THEN FALSE
    ELSE IF Contains(other.writes, self.reads[i]) THEN TRUE
    ELSE ReadLoop(self, other, i + 1)

RECURSIVE WriteLoopNoReads(_, _, _)
\* WriteLoop without the other.reads.contains(write) test.
WriteLoopNoReads(self, other, i) ==
    IF i > Len(self.writes) THEN FALSE
    ELSE IF Contains(other.writes, self.writes[i]) THEN TRUE
    ELSE WriteLoopNoReads(self, other, i + 1)

RECURSIVE WriteLoopNoWrites(_, _, _)
\* WriteLoop without the other.writes.contains(write) test.
WriteLoopNoWrites(self, other, i) ==
    IF i > Len(self.writes) THEN FALSE
    ELSE IF Contains(other.reads, self.writes[i]) THEN TRUE
    ELSE WriteLoopNoWrites(self, other, i + 1)

RECURSIVE WriteLoop(_, _, _)
\* for write in &self.writes { if other.reads.contains(write)
\*     || other.writes.contains(write) { return true } }
WriteLoop(self, other, i) ==
    IF i > Len(self.writes) THEN FALSE
    ELSE IF Contains(other.reads, self.writes[i])
            \/ Contains(other.writes, self.writes[i]) THEN TRUE
    ELSE WriteLoop(self, other, i + 1)

\* Task::conflicts_with(&self, other)
conflicts_with(self, other) ==
    IF ReadLoop(self, other, 1) THEN TRUE ELSE WriteLoop(self, other, 1)

\* DepsOf with the inner loop starting one position late (tasks[1..i]).
DepsOfSkipFirst(ts, i) == {j \in 1 .. i - 1 : conflicts_with(ts[i + 1], ts[j + 1])}

\* DepsOf that keeps only the nearest conflicting position (a transitively
\* reduced map when the earlier conflicts chain).
DepsOfLastOnly(ts, i) ==
    {j \in 0 .. i - 1 : /\ conflicts_with(ts[i + 1], ts[j + 1])
                        /\ \A k \in j + 1 .. i - 1 : ~conflicts_with(ts[i + 1], ts[k + 1])}

\* DepsOf with the inner loop over tasks[..=i]: the task is compared with
\* itself too.
DepsOfInclusive(ts, i) == {j \in 0 .. i : conflicts_with(ts[i + 1], ts[j + 1])}

\* DepsOf with the inner loop over the whole of tasks.
DepsOfWhole(ts, i) == {j \in 0 .. Len(ts) - 1 : conflicts_with(ts[i + 1], ts[j + 1])}

\* The inner loop of from_tasks for the task at position i:
\* the positions j < i with tasks[i].conflicts_with(tasks[j]).
DepsOf(ts, i) == {j \in 0 .. i - 1 : conflicts_with(ts[i + 1], ts[j + 1])}

\* DependencyGraph::from_tasks: the dependencies map, keyed by position.
from_tasks(ts) == [i \in 0 .. Len(ts) - 1 |-> DepsOf(ts, i)]

\* The payload of panic!("Circular dependency detected!").
CyclePanic == "Circular dependency detected!"

\* The payload of the panic of HashMap's Index on a key it does not hold.
NoEntryPanic == "no entry found for key"

\* The decimal digits, as usize's Display writes them.
Digits == <<"0", "1", "2", "3", "4", "5", "6", "7", "8", "9">>

RECURSIVE Dec(_)
\* format!("{}", n) of a usize n.
Dec(n) == IF n < 10 THEN Digits[n + 1] ELSE Dec(n \div 10) \o Digits[(n % 10) + 1]

\* The payload of the panic of vec[index] on a Vec of length len <= index.
IndexPanic(len, index) ==
    "index out of bounds: the len is " \o Dec(len) \o " but the index is " \o Dec(index)

VARIABLES
    tasks,          \* DependencyGraph.tasks
    dependencies,   \* DependencyGraph.dependencies
    pc,             \* where the run is: "graph", "leveling", "returned",
                    \* "panicked"; "running", "finished" (the caller);
                    \* "conflict", "compared" (SpecConflict)
    levels,         \* execution_levels: let mut levels
    completed,      \* execution_levels: let mut completed
    remaining,      \* execution_levels: let mut remaining
    panic,          \* "none", or the payload of the panic that ended the call
    result,         \* SpecConflict: <<a.conflicts_with(b), b.conflicts_with(a)>>
    store,          \* the caller: value of every resource
    phase,          \* the caller: per position "idle", "read" or "done"
    snap,           \* the caller: per position the values its read step saw
    lvl,            \* the caller: the level being run (1-based), 0 before
    prev,           \* the caller: whether an earlier call on this graph
                    \* returned, and the levels it returned
    printed,        \* visualize: what it wrote to stdout so far (the
                    \* dependency lines, the level header, the level lines)
    words,          \* tasks.rs: the corpus (the Vec<String> of read_file)
    word,           \* tasks.rs: the word selected or handed to the count
    count           \* tasks.rs: what count_word_occurrences returned

vars == <<tasks, dependencies, pc, levels, completed, remaining, panic, result,
          store, phase, snap, lvl, prev, printed, words, word, count>>

sched == <<levels, completed, remaining, panic>>
caller == <<store, phase, snap, lvl>>
history == <<prev, printed>>
corpus == <<words, word, count>>

\* Number of tasks of the graph.
N == Len(tasks)

\* Every usize the graph holds as a task id: the id fields, the keys of the
\* map and the members of its sets.
GraphIds ==
    {tasks[p].id : p \in 1 .. N} \cup DOMAIN dependencies
        \cup UNION {dependencies[t] : t \in DOMAIN dependencies}

\* The task ids a panic payload names: CyclePanic and NoEntryPanic are fixed
\* strings that name none, an IndexPanic names the index it was raised for.
IdsNamedIn(payload) == {i \in GraphIds : payload = IndexPanic(N, i)}

\* Value of a resource no task has written.
Unwritten == <<0, <<>>>>

\* Locals of execution_levels and the caller's state before they run.
Idle ==
    /\ levels = <<>>
    /\ completed = {}
    /\ remaining = {}
    /\ panic = "none"
    /\ result = <<>>
    /\ store = [r \in Resources |-> Unwritten]
    /\ phase = <<>>
    /\ snap = <<>>
    /\ lvl = 0
    /\ prev = [called |-> FALSE, levels |-> <<>>]
    /\ printed = <<>>
    /\ word = ""
    /\ count = 0

\* State after DependencyGraph::from_tasks(input), for every input sequence
\* of at most MaxTasks tasks.
Init ==
    /\ \E n \in 0 .. MaxTasks :
         \E ids \in [1 .. n -> 0 .. n] :
         \E rs \in [1 .. n -> AccessLists] :
         \E ws \in [1 .. n -> AccessLists] :
            /\ \A p \in 1 .. n : ids[p] \in IdChoices(p - 1, n)
            /\ tasks = [p \in 1 .. n |-> [id |-> ids[p], reads |-> rs[p], writes |-> ws[p]]]
    /\ dependencies = from_tasks(tasks)
    /\ pc = "graph"
    /\ words = <<>>
    /\ Idle

\* A graph built as the struct literal DependencyGraph { tasks, dependencies }
\* (both fields are pub): ids equal positions, the map is any map over them.
InitInjected ==
    /\ \E n \in 0 .. MaxTasks :
         /\ tasks = [p \in 1 .. n |-> [id |-> p - 1, reads |-> <<>>, writes |-> <<>>]]
         /\ dependencies \in [0 .. n - 1 -> SUBSET (0 .. n - 1)]
    /\ pc = "graph"
    /\ words = <<>>
    /\ Idle

\* All orders a HashSet iteration can visit the set S in.
Orders(S) == {f \in [1 .. Cardinality(S) -> S] : \A x \in S : \E i \in DOMAIN f : f[i] = x}

\* EnterLevels with completed kept from the call before (a cache that
\* outlives the call instead of a fresh local).
EnterLevelsCarry ==
    /\ pc = "graph"
    /\ pc' = "leveling"
    /\ levels' = <<>>
    /\ completed' = completed
    /\ remaining' = {tasks[p].id : p \in 1 .. Len(tasks)}
    /\ UNCHANGED <<tasks, dependencies, panic, result, history, caller, corpus>>

\* EnterLevels that moves the tasks out of the graph while collecting ids
\* (self.tasks.drain(..) instead of self.tasks.iter()).
EnterLevelsDrain ==
    /\ pc = "graph"
    /\ pc' = "leveling"
    /\ levels' = <<>>
    /\ completed' = {}
    /\ remaining' = {tasks[p].id : p \in 1 .. Len(tasks)}
    /\ tasks' = <<>>
    /\ UNCHANGED <<dependencies, panic, result, history, caller, corpus>>

\* execution_levels, up to the while loop (lines 33-35).
EnterLevels ==
    /\ pc = "graph"
    /\ pc' = "leveling"
    /\ levels' = <<>>
    /\ completed' = {}
    /\ remaining' = {tasks[p].id : p \in 1 .. N}
    /\ UNCHANGED <<tasks, dependencies, panic, result, history, caller, corpus>>

\* Ready with deps.iter().any(..) for a task that has dependencies.
ReadyAny(deps, rem, done) ==
    {t \in rem : deps[t] = {} \/ \E dep \in deps[t] : dep \in done}

\* Ready with a `break` after the first push: one id a level, the smallest
\* first.
ReadyFirst(deps, rem, done) ==
    {t \in rem : /\ \A dep \in deps[t] : dep \in done
                 /\ \A u \in rem : (\A dep \in deps[u] : dep \in done) => t <= u}

\* Ready with the scan over every key of the map instead of remaining.
ReadyAllKeys(deps, rem, done) ==
    {t \in DOMAIN deps : \A dep \in deps[t] : dep \in done}

\* The ids the scan of one iteration pushes to current_level.
Ready(deps, rem, done) == {t \in rem : \A dep \in deps[t] : dep \in done}

\* LevelIteration without the current_level.is_empty() check of lines 48-50:
\* a scan that finds nothing pushes its empty current_level.
LevelIterationNoCheck ==
    /\ pc = "leveling"
    /\ IF remaining = {}
       THEN /\ pc' = "returned"
            /\ UNCHANGED sched
       ELSE IF \E t \in remaining : t \notin DOMAIN dependencies
       THEN /\ pc' = "panicked"
            /\ panic' = NoEntryPanic
            /\ UNCHANGED <<levels, completed, remaining>>
       ELSE \E current_level \in Orders(Ready(dependencies, remaining, completed)) :
            /\ completed' = completed \cup Ready(dependencies, remaining, completed)
            /\ remaining' = remaining \ Ready(dependencies, remaining, completed)
            /\ levels' = Append(levels, current_level)
            /\ UNCHANGED <<pc, panic>>
    /\ UNCHANGED <<tasks, dependencies, result, history, caller, corpus>>

\* One iteration of the while loop (lines 37-59), or the loop exit when
\* remaining is empty (line 61).
LevelIteration ==
    /\ pc = "leveling"
    /\ IF remaining = {}
       THEN /\ pc' = "returned"
            /\ UNCHANGED sched
       ELSE IF \E t \in remaining : t \notin DOMAIN dependencies
       THEN \* self.dependencies[&task_id] on a missing key panics
            /\ pc' = "panicked"
            /\ panic' = NoEntryPanic
            /\ UNCHANGED <<levels, completed, remaining>>
       ELSE IF Ready(dependencies, remaining, completed) = {}
       THEN /\ pc' = "panicked"
            /\ panic' = CyclePanic
            /\ UNCHANGED <<levels, completed, remaining>>
       ELSE \E current_level \in Orders(Ready(dependencies, remaining, completed)) :
            /\ completed' = completed \cup Ready(dependencies, remaining, completed)
            /\ remaining' = remaining \ Ready(dependencies, remaining, completed)
            /\ levels' = Append(levels, current_level)
            /\ UNCHANGED <<pc, panic>>
    /\ UNCHANGED <<tasks, dependencies, result, history, caller, corpus>>

Next == EnterLevels \/ LevelIteration

Spec == Init /\ [][Next]_vars

SpecInjected == InitInjected /\ [][Next]_vars

\* The ids of level k (1-based) of levels, read as a set.
LevelSet(k) == {levels[k][i] : i \in 1 .. Len(levels[k])}

\* The task a level entry stands for: self.tasks[*id], as visualize reads it.
TaskAt(t) == tasks[t + 1]

\* What the task at position pos leaves in the store st when its read step
\* sees the store seen: every declared write gets a value made of the task
\* and of what it read.
Written(st, seen, pos) ==
    [r \in Resources |->
        IF Contains(TaskAt(pos).writes, r) THEN <<pos + 1, seen>> ELSE st[r]]

\* The values of the declared reads of the task at position pos in store st.
Seen(st, pos) == [i \in 1 .. Len(TaskAt(pos).reads) |-> st[TaskAt(pos).reads[i]]]

RECURSIVE SerialFrom(_, _)
\* The store after the tasks at positions pos .. N-1 ran one after another,
\* in input order, from store st.
SerialFrom(st, pos) ==
    IF pos >= N THEN st
    ELSE SerialFrom(Written(st, Seen(st, pos), pos), pos + 1)

\* The caller starts on the levels execution_levels returned.
StartRun ==
    /\ pc = "returned"
    /\ pc' = "running"
    /\ lvl' = 1
    /\ phase' = [p \in 0 .. N - 1 |-> "idle"]
    /\ snap' = [p \in 0 .. N - 1 |-> <<>>]
    /\ UNCHANGED <<tasks, dependencies, sched, result, history, store, corpus>>

\* A task of the current level reads its declared reads.
ReadStep ==
    /\ pc = "running"
    /\ lvl <= Len(levels)
    /\ \E t \in LevelSet(lvl) :
        /\ phase[t] = "idle"
        /\ phase' = [phase EXCEPT ![t] = "read"]
        /\ snap' = [snap EXCEPT ![t] = Seen(store, t)]
    /\ UNCHANGED <<tasks, dependencies, pc, sched, result, history, store, lvl, corpus>>

\* A task of the current level that has read writes its declared writes.
WriteStep ==
    /\ pc = "running"
    /\ lvl <= Len(levels)
    /\ \E t \in LevelSet(lvl) :
        /\ phase[t] = "read"
        /\ phase' = [phase EXCEPT ![t] = "done"]
        /\ store' = Written(store, snap[t], t)
    /\ UNCHANGED <<tasks, dependencies, pc, sched, result, history, snap, lvl, corpus>>

\* The barrier between levels: the next level starts when every task of the
\* current one is done; after the last level the run is finished.
Barrier ==
    /\ pc = "running"
    /\ IF lvl > Len(levels)
       THEN pc' = "finished" /\ lvl' = lvl
       ELSE /\ \A t \in LevelSet(lvl) : phase[t] = "done"
            /\ lvl' = lvl + 1
            /\ pc' = pc
    /\ UNCHANGED <<tasks, dependencies, sched, result, history, store, phase, snap, corpus>>

NextRun == EnterLevels \/ LevelIteration \/ StartRun \/ ReadStep \/ WriteStep \/ Barrier

SpecRun == Init /\ [][NextRun]_vars

\* The keys of the map whose line visualize cannot write: the key or one of
\* its dependencies is no index of self.tasks.
BadKeys ==
    {t \in DOMAIN dependencies : t >= N \/ \E dep \in dependencies[t] : dep >= N}

\* The dependency section of stdout (header of line 65 and one line per key
\* of done); a name stands for the index here.
DependencyLines(done) == [t \in done |-> dependencies[t]]

\* print!("Task {}: ", ..) of line 67 for key t, the line not ended.
OpenLine(t) == <<"Task", t>>

\* println!("\n=== Execution Levels ===") of line 79.
LevelsHeader == "=== Execution Levels ==="

\* visualize, up to its call of execution_levels (lines 65-80): the keys of
\* the map are visited in any order (HashMap iteration); self.tasks[*task_id]
\* panics for a key that is no index, self.tasks[*id] for the first such
\* dependency of the key's set (HashSet iteration: any of them), after the
\* lines of the keys visited before were written. Otherwise every line and
\* the header of the level section are written and the call starts as
\* EnterLevels does.
VisualizeEnter ==
    /\ pc = "graph"
    /\ Len(printed) = 0
    /\ IF BadKeys # {}
       THEN /\ \E t \in BadKeys : \E done \in SUBSET (DOMAIN dependencies \ BadKeys) :
                 IF t >= N
                 THEN /\ panic' = IndexPanic(N, t)
                      /\ printed' = <<DependencyLines(done)>>
                 ELSE \E dep \in {d \in dependencies[t] : d >= N} :
                      /\ panic' = IndexPanic(N, dep)
                      /\ printed' = <<DependencyLines(done), OpenLine(t)>>
            /\ pc' = "panicked"
            /\ UNCHANGED <<levels, completed, remaining>>
       ELSE /\ printed' = <<DependencyLines(DOMAIN dependencies), LevelsHeader>>
            /\ pc' = "leveling"
            /\ levels' = <<>>
            /\ completed' = {}
            /\ remaining' = {tasks[p].id : p \in 1 .. N}
            /\ panic' = panic
    /\ UNCHANGED <<tasks, dependencies, result, caller, prev, corpus>>

\* The levels (1-based) holding an entry that is no index of self.tasks.
BadLevels == {k \in 1 .. Len(levels) : \E i \in 1 .. Len(levels[k]) : levels[k][i] >= N}

\* The first entry of the Vec level that is no index of self.tasks.
FirstBad(level) ==
    level[CHOOSE i \in 1 .. Len(level) :
            /\ level[i] >= N
            /\ \A j \in 1 .. i - 1 : level[j] < N]

\* visualize, after execution_levels returned (lines 80-89): one line per
\* level with the names of self.tasks[*id], in the order of the Vecs; the
\* names of a level are collected before its line is written.
VisualizeLevels ==
    /\ pc = "returned"
    /\ Len(printed) = 2
    /\ IF BadLevels # {}
       THEN \E k \in BadLevels :
            /\ \A j \in BadLevels : k <= j
            /\ pc' = "panicked"
            /\ panic' = IndexPanic(N, FirstBad(levels[k]))
            /\ printed' = Append(printed, SubSeq(levels, 1, k - 1))
       ELSE /\ printed' = Append(printed, levels)
            /\ pc' = "visualized"
            /\ panic' = panic
    /\ UNCHANGED <<tasks, dependencies, levels, completed, remaining, result, caller, prev, corpus>>

\* The caller keeps the levels a call returned and uses the same graph for
\* one more call.
CallAgain ==
    /\ \/ pc = "visualized"
       \/ pc = "returned" /\ Len(printed) # 2
    /\ ~prev.called
    /\ prev' = [called |-> TRUE, levels |-> levels]
    /\ pc' = "graph"
    /\ UNCHANGED <<tasks, dependencies, sched, result, caller, printed, corpus>>

NextAgain == EnterLevels \/ LevelIteration \/ VisualizeEnter \/ VisualizeLevels \/ CallAgain

\* State after from_tasks on an input whose tasks carry their positions as
\* ids, so that calls on the graph return and can be repeated.
InitPositional ==
    /\ \E n \in 0 .. MaxTasks :
         \E rs \in [1 .. n -> AccessLists] :
         \E ws \in [1 .. n -> AccessLists] :
            tasks = [p \in 1 .. n |-> [id |-> p - 1, reads |-> rs[p], writes |-> ws[p]]]
    /\ dependencies = from_tasks(tasks)
    /\ pc = "graph"
    /\ words = <<>>
    /\ Idle

SpecAgain == InitPositional /\ [][NextAgain]_vars

\* Two tasks a = tasks[1] and b = tasks[2] before a direct call of
\* conflicts_with in both directions (as the tests of dep_graph.rs do).
InitConflict ==
    /\ tasks \in [1 .. 2 -> WideTask]
    /\ dependencies = <<>>
    /\ pc = "conflict"
    /\ words = <<>>
    /\ Idle

\* a.conflicts_with(&b) and b.conflicts_with(&a)
CallConflicts ==
    /\ pc = "conflict"
    /\ pc' = "compared"
    /\ result' = <<conflicts_with(tasks[1], tasks[2]), conflicts_with(tasks[2], tasks[1])>>
    /\ UNCHANGED <<tasks, dependencies, sched, caller, history, corpus>>

NextConflict == CallConflicts

SpecConflict == InitConflict /\ [][NextConflict]_vars

\* The reads and writes of the tasks the tests of dep_graph.rs build:
\* test_no_conflicts, test_write_write_conflict, test_read_write_conflict
\* and test_execution_levels.
TestAccesses ==
    { [reads |-> <<"account_1">>, writes |-> <<"account_2">>],
      [reads |-> <<"account_3">>, writes |-> <<"account_4">>],
      [reads |-> <<>>, writes |-> <<"account_1">>],
      [reads |-> <<"account_1">>, writes |-> <<>>],
      [reads |-> <<>>, writes |-> <<"x">>],
      [reads |-> <<>>, writes |-> <<"y">>],
      [reads |-> <<"x">>, writes |-> <<"z">>] }

\* The input of test_execution_levels: A, B, C with ids 0, 1, 2.
TestLevelsInput ==
    << [id |-> 0, reads |-> <<>>, writes |-> <<"x">>],
       [id |-> 1, reads |-> <<>>, writes |-> <<"y">>],
       [id |-> 2, reads |-> <<"x">>, writes |-> <<"z">> ] >>

\* State after from_tasks on a sequence of at most MaxTasks of the tests'
\* tasks, each with its position as id (as the tests number them).
InitTests ==
    /\ \E n \in 0 .. MaxTasks :
         \E acc \in [1 .. n -> TestAccesses] :
            tasks = [p \in 1 .. n |->
                        [id |-> p - 1, reads |-> acc[p].reads, writes |-> acc[p].writes]]
    /\ dependencies = from_tasks(tasks)
    /\ pc = "graph"
    /\ words = <<>>
    /\ Idle

SpecTests == InitTests /\ [][Next]_vars

\* Words of a corpus: read_file splits on whitespace, so a word is a
\* non-empty string; "The" and "the" differ as Strings.
Vocabulary == {"the", "The", "wolf"}

\* Words handed to count_word_occurrences directly: those of the
\* vocabulary and one that no corpus holds.
Probes == Vocabulary \cup {"fox"}

\* The payload of the panic of Option::unwrap on None (the source's
\* message quotes Option::unwrap() and None in backticks).
UnwrapPanic == "called Option::unwrap() on a None value"

RECURSIVE CountFrom(_, _, _)
\* words.iter().filter(|&w| w == word).count(), from index i on.
CountFrom(w, ws, i) ==
    IF i > Len(ws) THEN 0
    ELSE (IF ws[i] = w THEN 1 ELSE 0) + CountFrom(w, ws, i + 1)

\* count_word_occurrences with words.iter().skip(1): the first word of the
\* corpus is not looked at.
count_word_occurrencesSkipFirst(w, ws) == CountFrom(w, ws, 2)

\* count_word_occurrences(word, words) (tasks.rs 46-50)
count_word_occurrences(w, ws) == CountFrom(w, ws, 1)

\* State after let words = read_file(), for every corpus of at most
\* MaxWords words.
InitWords ==
    /\ words \in SeqsUpTo(Vocabulary, MaxWords)
    /\ tasks = <<>>
    /\ dependencies = <<>>
    /\ pc = "words"
    /\ Idle

\* select_random_word(&words, seed) (tasks.rs 31-40): words.choose(&mut rng)
\* is None for an empty slice and Some(&words[i]) for an index i the rng
\* draws below words.len() otherwise; every index is a possible draw.
SelectRandomWord ==
    /\ pc = "words"
    /\ IF words = <<>>
       THEN /\ pc' = "panicked"
            /\ panic' = UnwrapPanic
            /\ UNCHANGED word
       ELSE \E i \in 1 .. Len(words) :
            /\ word' = words[i]
            /\ pc' = "selected"
            /\ UNCHANGED panic
    /\ UNCHANGED <<tasks, dependencies, levels, completed, remaining, result,
                   caller, history, words, count>>

\* count_word_occurrences(&word, &words) on the word select_random_word
\* returned, as test_count_word_occurrences and the executors of lib.rs call
\* it.
CountSelected ==
    /\ pc = "selected"
    /\ count' = count_word_occurrences(word, words)
    /\ pc' = "counted"
    /\ UNCHANGED <<tasks, dependencies, sched, result, caller, history, words, word>>

\* count_word_occurrences(w, &words) on a word of the caller's choice.
CountProbe ==
    /\ pc = "words"
    /\ \E w \in Probes :
         /\ word' = w
         /\ count' = count_word_occurrences(w, words)
    /\ pc' = "counted_probe"
    /\ UNCHANGED <<tasks, dependencies, sched, result, caller, history, words>>

NextWords == SelectRandomWord \/ CountSelected \/ CountProbe

SpecWords == InitWords /\ [][NextWords]_vars

(***************************************************************************)
(* Properties                                                              *)
(***************************************************************************)

\* The positions of the input.
Positions == 0 .. N - 1

\* The levels (1-based indices) that hold the id t.
LevelsOf(t) == {k \in 1 .. Len(levels) : t \in LevelSet(k)}

\* The resources a Vec names.
Elems(vec) == {vec[i] : i \in 1 .. Len(vec)}

\* C1: in the levels execution_levels builds on a graph of from_tasks, two
\* distinct tasks of one level do not conflict, in either direction.
C1_LevelConflictFree ==
    \A k \in 1 .. Len(levels) : \A a \in LevelSet(k) : \A b \in LevelSet(k) :
        a # b => /\ ~conflicts_with(TaskAt(a), TaskAt(b))
                 /\ ~conflicts_with(TaskAt(b), TaskAt(a))

\* C1 witness: a returned result of more than one level, one of them with
\* two tasks.
C1_Witness ==
    /\ pc = "returned"
    /\ Len(levels) >= 2
    /\ \E k \in 1 .. Len(levels) : Cardinality(LevelSet(k)) >= 2

\* C2: after the caller ran the levels in order, a barrier between levels
\* and any interleaving of read and write steps inside a level, every
\* resource holds the value the serial run in input order leaves.
C2_SerialEquivalence ==
    pc = "finished" => store = SerialFrom([r \in Resources |-> Unwritten], 0)

\* Serial equivalence restricted to the inputs whose id fields equal the
\* positions: there the caller's run ends in the store of the serial run.
SerialWhenPositional ==
    (pc = "finished" /\ \A p \in 1 .. N : tasks[p].id = p - 1)
        => store = SerialFrom([r \in Resources |-> Unwritten], 0)

\* C3: leveling soundness: every dependency of a task of level k is in a
\* level before k.
C3_LevelingSound ==
    \A k \in 1 .. Len(levels) : \A t \in LevelSet(k) : \A dep \in dependencies[t] :
        \E j \in 1 .. k - 1 : dep \in LevelSet(j)

\* C3 witness: a returned result of three levels in which a task has two
\* dependencies.
C3_Witness ==
    /\ pc = "returned"
    /\ Len(levels) = 3
    /\ \E t \in LevelSet(3) : Cardinality(dependencies[t]) >= 2

\* C4: leveling completeness: every task (position) of the input is in
\* exactly one level of the result, and the levels together are the input.
C4_LevelingComplete ==
    pc = "returned" =>
        /\ \A p \in Positions : Cardinality(LevelsOf(p)) = 1
        /\ UNION {LevelSet(k) : k \in 1 .. Len(levels)} = Positions

\* C5: greedy earliest placement: a task without dependencies is in level 0,
\* any other task in the level right after the last level that holds one of
\* its dependencies (levels counted from 0 are k - 1 here).
C5_GreedyPlacement ==
    \A k \in 1 .. Len(levels) : \A t \in LevelSet(k) :
        IF dependencies[t] = {}
        THEN k = 1
        ELSE /\ k > 1
             /\ \A dep \in dependencies[t] : \E j \in 1 .. k - 1 : dep \in LevelSet(j)
             /\ \E dep \in dependencies[t] : dep \in LevelSet(k - 1)

\* C5 witness: a returned result where a task of the third level has one
\* dependency in the first level and one in the second.
C5_Witness ==
    /\ pc = "returned"
    /\ \E t \in Positions :
        /\ 3 \in LevelsOf(t)
        /\ dependencies[t] \cap LevelSet(1) # {}
        /\ dependencies[t] \cap LevelSet(2) # {}

\* C6: a dependency map on which leveling cannot make progress ends the call
\* with an error value, never with a panic.
C6_CycleIsNoPanic ==
    ~(pc = "panicked" /\ panic = CyclePanic)

\* C7: the cycle failure names the ids still in remaining, and no list of
\* levels is returned.
C7_CycleNamesStuckIds ==
    (pc = "panicked" /\ panic = CyclePanic) => remaining \subseteq IdsNamedIn(panic)

\* C8: whatever the id fields hold, the identity of a task is its position:
\* leveling completes and schedules every position exactly once.
C8_PositionIsIdentity ==
    /\ pc # "panicked"
    /\ pc = "returned" => \A p \in Positions : Cardinality(LevelsOf(p)) = 1

\* C9: conflicts_with is symmetric.
C9_Symmetric ==
    pc = "compared" => result[1] = result[2]

\* C9 witness: a only writes, b only reads, they share a resource, and both
\* calls returned true.
C9_Witness ==
    /\ pc = "compared"
    /\ tasks[1].reads = <<>>
    /\ tasks[2].writes = <<>>
    /\ Elems(tasks[1].writes) \cap Elems(tasks[2].reads) # {}
    /\ result = <<TRUE, TRUE>>

\* C10: a.conflicts_with(b) is true exactly when a's reads meet b's writes,
\* a's writes meet b's reads or a's writes meet b's writes.
C10_ConflictExactly ==
    pc = "compared" =>
        result[1] = \/ Elems(tasks[1].reads) \cap Elems(tasks[2].writes) # {}
                    \/ Elems(tasks[1].writes) \cap Elems(tasks[2].reads) # {}
                    \/ Elems(tasks[1].writes) \cap Elems(tasks[2].writes) # {}

\* C10 witness: the two tasks read a common resource, it is their only
\* overlap, and the call returned false.
C10_Witness ==
    /\ pc = "compared"
    /\ Elems(tasks[1].reads) \cap Elems(tasks[2].reads) # {}
    /\ tasks[1].writes # <<>>
    /\ result[1] = FALSE

\* The conflict relation of the data model on the declared sets: one reads
\* what the other writes, or both write the same resource.
Conflicting(a, b) ==
    \/ Elems(a.reads) \cap Elems(b.writes) # {}
    \/ Elems(a.writes) \cap Elems(b.reads) # {}
    \/ Elems(a.writes) \cap Elems(b.writes) # {}

\* Every id field of the input equals its position.
Positional == \A p \in 1 .. N : tasks[p].id = p - 1

\* C11: two tasks whose reads and writes together share no resource do not
\* conflict, in either direction.
C11_DisjointNoConflict ==
    (/\ pc = "compared"
     /\ (Elems(tasks[1].reads) \cup Elems(tasks[1].writes))
            \cap (Elems(tasks[2].reads) \cup Elems(tasks[2].writes)) = {})
        => result = <<FALSE, FALSE>>

\* C11 witness: both tasks read and write, their resources are disjoint, and
\* both calls returned false.
C11_Witness ==
    /\ pc = "compared"
    /\ \A p \in 1 .. 2 : tasks[p].reads # <<>> /\ tasks[p].writes # <<>>
    /\ (Elems(tasks[1].reads) \cup Elems(tasks[1].writes))
            \cap (Elems(tasks[2].reads) \cup Elems(tasks[2].writes)) = {}
    /\ result = <<FALSE, FALSE>>

\* C12: the map of from_tasks has an entry for exactly the positions
\* 0 .. N-1, and the entry of i is the set of all positions j < i whose task
\* conflicts with the task at i.
C12_MapIsAllEarlierConflicts ==
    /\ DOMAIN dependencies = Positions
    /\ \A i \in Positions :
        dependencies[i] = {j \in Positions : j < i /\ Conflicting(TaskAt(j), TaskAt(i))}

\* C12 witness: a map of three entries, one empty, where the last task
\* conflicts with both earlier ones, which conflict with each other.
C12_Witness ==
    /\ N = 3
    /\ dependencies[0] = {}
    /\ dependencies[1] = {0}
    /\ dependencies[2] = {0, 1}

\* C14: on a graph of from_tasks whose ids equal their positions,
\* execution_levels never panics: whenever remaining is not empty some
\* remaining task has all its dependencies completed.
C14_NoCycleWhenPositional ==
    Positional =>
        /\ pc # "panicked"
        /\ (pc = "leveling" /\ remaining # {}) =>
                \E t \in remaining : dependencies[t] \subseteq completed

\* C14 witness: a positional input whose leveling returned three levels.
C14_Witness ==
    /\ Positional
    /\ pc = "returned"
    /\ Len(levels) = 3

\* C15: in the map of from_tasks a task depends only on strictly smaller
\* positions: never on itself, never on a later task.
C15_DependsOnEarlierOnly ==
    \A i \in DOMAIN dependencies : \A j \in dependencies[i] : j < i

\* C15 witness: a task that reads and writes the same resource (it conflicts
\* with itself) and has dependencies.
C15_Witness ==
    \E i \in Positions :
        /\ Elems(TaskAt(i).reads) \cap Elems(TaskAt(i).writes) # {}
        /\ conflicts_with(TaskAt(i), TaskAt(i))
        /\ dependencies[i] # {}

\* C18: of two tasks that write the same resource, the later depends on the
\* earlier, they are never in one level, and a level that holds the later
\* comes after a level that holds the earlier; the input A(writes=[r]),
\* B(writes=[r]) gives the levels [{A}, {B}].
C18_WritersOrdered ==
    /\ \A i \in Positions : \A j \in Positions :
        (i < j /\ Elems(TaskAt(i).writes) \cap Elems(TaskAt(j).writes) # {}) =>
            /\ i \in dependencies[j]
            /\ \A k \in LevelsOf(j) :
                /\ i \notin LevelSet(k)
                /\ \E h \in 1 .. k - 1 : i \in LevelSet(h)
    /\ (/\ pc = "returned"
        /\ N = 2
        /\ Positional
        /\ \A p \in 1 .. 2 : tasks[p].reads = <<>> /\ Len(tasks[p].writes) = 1
        /\ tasks[1].writes = tasks[2].writes)
            => levels = <<<<0>>, <<1>>>>

\* C18 witness: the returned levels of two tasks that only write the same
\* resource.
C18_Witness ==
    /\ pc = "returned"
    /\ N = 2
    /\ Positional
    /\ \A p \in 1 .. 2 : tasks[p].reads = <<>> /\ tasks[p].writes = <<"x">>
    /\ levels = <<<<0>>, <<1>>>>

\* C13: the leveling loop terminates for every dependency map: an iteration
\* that does not end the call takes at least one id out of remaining, and
\* the levels pushed and the ids still remaining never exceed N together,
\* so at most N iterations push a level.
C13_LoopTerminates ==
    /\ [](pc \in {"leveling", "returned", "panicked"} =>
            Len(levels) + Cardinality(remaining) <= N)
    /\ [][pc = "leveling" =>
            \/ pc' \in {"returned", "panicked"}
            \/ /\ Cardinality(remaining') < Cardinality(remaining)
               /\ Len(levels') = Len(levels) + 1]_vars

\* C13 witness: a cyclic map on which the loop pushed a level and then
\* ended with the cycle panic, ids still remaining.
C13_Witness ==
    /\ pc = "panicked"
    /\ panic = CyclePanic
    /\ Len(levels) >= 1
    /\ remaining # {}

\* C19: for the input A(writes=[x]), B(writes=[y]), C(reads=[x],
\* writes=[z]) execution_levels returns exactly two levels, {A, B} and {C}.
C19_TestExecutionLevels ==
    tasks = TestLevelsInput =>
        /\ pc # "panicked"
        /\ pc = "returned" =>
            /\ Len(levels) = 2
            /\ Len(levels[1]) = 2 /\ LevelSet(1) = {0, 1}
            /\ Len(levels[2]) = 1 /\ LevelSet(2) = {2}

\* C19 witness: the call returned on that input, B pushed before A.
C19_Witness ==
    /\ tasks = TestLevelsInput
    /\ pc = "returned"
    /\ levels = <<<<1, 0>>, <<2>>>>

\* No two tasks of the input conflict.
NoConflicts ==
    \A i \in Positions : \A j \in Positions :
        i # j => ~Conflicting(TaskAt(i), TaskAt(j))

\* C20: for a non-empty input without conflicts every dependency set is
\* empty and execution_levels returns a single level that holds all tasks.
C20_NoConflictsOneLevel ==
    (N >= 1 /\ NoConflicts) =>
        /\ \A i \in Positions : dependencies[i] = {}
        /\ pc # "panicked"
        /\ pc = "returned" => (Len(levels) = 1 /\ LevelSet(1) = Positions)

\* The single level restricted to the inputs whose id fields equal the
\* positions: there the call returns one level with every position.
OneLevelWhenPositional ==
    (N >= 1 /\ NoConflicts /\ Positional) =>
        /\ \A i \in Positions : dependencies[i] = {}
        /\ pc # "panicked"
        /\ pc = "returned" => (Len(levels) = 1 /\ LevelSet(1) = Positions)

\* A list of levels with each level read as a set.
SetsOf(lv) == [k \in 1 .. Len(lv) |-> {lv[k][i] : i \in 1 .. Len(lv[k])}]

\* C16: a second run on the same graph returns the same sequence of levels
\* as the first when each level is read as a set, whatever order remaining
\* was iterated in, and does not fail where the first returned.
C16_SameLevelsAgain ==
    prev.called =>
        /\ pc # "panicked"
        /\ pc \in {"returned", "visualized"} => SetsOf(levels) = SetsOf(prev.levels)

\* C16 witness: the second call returned at least two levels, pushed in
\* another order than the first call pushed them.
C16_Witness ==
    /\ prev.called
    /\ pc = "returned"
    /\ Len(levels) >= 2
    /\ levels # prev.levels

\* C17: execution_levels and visualize leave tasks and dependencies as they
\* were, and a call of execution_levels after visualize returns the levels
\* visualize printed.
C17_GraphUnchanged ==
    /\ [][tasks' = tasks /\ dependencies' = dependencies]_vars
    /\ []((pc = "returned" /\ prev.called /\ Len(printed) = 3) =>
            SetsOf(levels) = SetsOf(printed[3]))

\* C17 witness: visualize ran to its end on a graph with dependencies, then
\* execution_levels returned on the same graph.
C17_Witness ==
    /\ pc = "returned"
    /\ prev.called
    /\ Len(printed) = 3
    /\ Len(levels) >= 2
    /\ printed[1] = dependencies

\* C21: execution_levels never returns an empty level (no level of levels is
\* empty at any point of the call, so none is at the return), and for an
\* empty task sequence the call does not panic, never enters the loop body
\* and returns an empty list of levels.
C21_NoEmptyLevel ==
    /\ \A k \in 1 .. Len(levels) : Len(levels[k]) > 0
    /\ N = 0 => /\ pc # "panicked"
                /\ panic = "none"
                /\ levels = <<>>
                /\ pc = "leveling" => remaining = {}

\* A call on a graph with dependencies returned two or more levels.
C21_Witness ==
    /\ pc = "returned"
    /\ Len(levels) >= 2
    /\ \E t \in DOMAIN dependencies : dependencies[t] # {}

\* A call on the graph of an empty task sequence returned.
C21_EmptyInputReturned ==
    /\ N = 0
    /\ pc = "returned"
    /\ levels = <<>>

\* The positions of the corpus that hold the word w.
PositionsOf(w) == {i \in 1 .. Len(words) : words[i] = w}

\* C22: count_word_occurrences(word, words) returns the number of positions
\* of words equal to word; select_random_word on a non-empty corpus returns
\* an element of the corpus (and does not panic), so the count of a selected
\* word is greater than 0.
C22_CountOfSelectedPositive ==
    /\ pc \in {"counted", "counted_probe"} => count = Cardinality(PositionsOf(word))
    /\ words # <<>> => pc # "panicked"
    /\ pc \in {"selected", "counted"} => PositionsOf(word) # {}
    /\ pc = "counted" => count > 0

\* A word that is at two positions of a corpus holding another word too was
\* selected and counted.
C22_Witness ==
    /\ pc = "counted"
    /\ count = 2
    /\ Len(words) > count
    /\ word = words[Len(words)]

====
